---- MODULE Spec2Model ----
(***************************************************************************)
(* Model of the dev-server plugin of vite.config.ts: the plugin factory    *)
(* devServerConfigPlugin, its config hook, configureServerForDev and the   *)
(* route resolver getParsedRouteForOpenWithEnv.                            *)
(*                                                                         *)
(* A JavaScript string is a sequence of one-character strings.  A          *)
(* JavaScript value is a record tagged with its type, so that `false`,     *)
(* `undefined`, a string and a thrown TypeError stay distinct outcomes.    *)
(***************************************************************************)
EXTENDS Naturals, Sequences, FiniteSets

\* Longest env value / route enumerated character by character.
MaxLen == 2

\* Characters of the enumerated strings.
Alphabet == {"/", "a"}

RECURSIVE StringsOfLen(_)
StringsOfLen(n) ==
    IF n = 0 THEN {<<>>}
    ELSE {Append(s, c) : s \in StringsOfLen(n - 1), c \in Alphabet}

BoundedStrings == UNION {StringsOfLen(n) : n \in 0..MaxLen}

\* The strings the source, its documentation and the specification name.
S_false      == <<"f", "a", "l", "s", "e">>
S_true       == <<"t", "r", "u", "e">>
S_FALSE      == <<"F", "A", "L", "S", "E">>
S_zero       == <<"0">>
S_myRoute    == <<"m", "y", "-", "r", "o", "u", "t", "e">>
S_slashRoute == <<"/">> \o S_myRoute
S_slashFalse == <<"/">> \o S_false
S_slashTrue  == <<"/">> \o S_true
S_falsy      == S_false \o <<"/">>
S_demo       == <<"/", "d", "e", "m", "o">>

\* ---------------------------------------------------------------- values

Undefined == [type |-> "undefined"]
JSFalse   == [type |-> "boolean", val |-> FALSE]
TypeError == [type |-> "TypeError"]
Str(s)    == [type |-> "string", val |-> s]

IsString(v) == v.type = "string"

\* JavaScript truthiness of the values an env lookup can yield: undefined and
\* the empty string are falsy, every other string is truthy.
ToBoolean(v) ==
    CASE v.type = "undefined" -> FALSE
      [] v.type = "boolean"   -> v.val
      [] v.type = "string"    -> Len(v.val) > 0
      [] OTHER                -> TRUE

\* String.prototype.startsWith
startsWith(s, prefix) ==
    /\ Len(s) >= Len(prefix)
    /\ SubSeq(s, 1, Len(prefix)) = prefix

\* The empty object literal {} and the object { open: v }.
EmptyObject == [k \in {} |-> Undefined]
OpenObject(v) == [k \in {"open"} |-> v]

\* ----------------------------------------------------------- environment

KEY == "VITE_DEV_AUTO_OPEN_IN_BROWSER"

\* Values the variable can hold in the env files.
EnvValues ==
    BoundedStrings \cup
    {S_false, S_true, S_FALSE, S_zero, S_myRoute, S_slashRoute,
     S_slashFalse, S_slashTrue, S_falsy}

\* What loadEnv can return: a Record<string, string> with or without the key.
EnvRecords == {EmptyObject} \cup {[k \in {KEY} |-> v] : v \in EnvValues}

\* currentEnv[name]: undefined when the key is missing.
Lookup(currentEnv, name) ==
    IF name \in DOMAIN currentEnv THEN Str(currentEnv[name]) ELSE Undefined

Commands == {"serve", "build"}

\* ---------------------------------------------------------------- options

S_about == <<"/", "a", "b", "o", "u", "t">>

\* The constant set to the route of the documentation's examples.
DEFAULT_ROUTE_TO_OPEN_demo == S_demo

DEFAULT_ROUTE_TO_OPEN == S_about

\* Routes of the type `/${string}`.
DefaultRoutes ==
    {s \in BoundedStrings : startsWith(s, <<"/">>)} \cup {S_slashRoute, S_demo}

\* The argument of devServerConfigPlugin: left out, or an options object.
OptionsArgs ==
    {Undefined} \cup {[defaultRouteToOpen |-> Str(r)] : r \in DefaultRoutes}

VARIABLES
    pc,          \* "start" before the plugin exists, "created" afterwards
    optionsArg,  \* the argument devServerConfigPlugin was called with
    options,     \* the options the plugin closed over
    cur,         \* the latest call of the config hook
    prev         \* the call of the config hook before that one

vars == <<pc, optionsArg, options, cur, prev>>

NoCall ==
    [called |-> FALSE, command |-> "none", files |-> EmptyObject,
     loaded |-> FALSE, thrown |-> FALSE, server |-> EmptyObject]


\* The directives a call can hand to the build tool as `open`.
Directives ==
    {JSFalse} \cup {Str(s) : s \in EnvValues \cup DefaultRoutes \cup {S_about}}

TypeOK ==
    /\ pc \in {"start", "created"}
    /\ optionsArg \in OptionsArgs
    /\ pc = "created" =>
          options \in {[defaultRouteToOpen |-> Str(r)] :
                          r \in DefaultRoutes \cup {S_about}}
    /\ \A c \in {cur, prev} :
          /\ c.called \in BOOLEAN
          /\ c.command \in Commands \cup {"none"}
          /\ c.files \in EnvRecords
          /\ c.loaded \in BOOLEAN
          /\ c.thrown \in BOOLEAN
          /\ c.server \in {EmptyObject} \cup {OpenObject(d) : d \in Directives}

\* --------------------------------------------------------------- resolver

\* The comparison with 'false' left out.
getParsedRoute_noFalseCheck(currentEnv, defaultRouteToOpen) ==
    LET autoOpenInBrowserValue == Lookup(currentEnv, KEY)
    IN  IF ~ToBoolean(autoOpenInBrowserValue) THEN JSFalse
        ELSE IF startsWith(autoOpenInBrowserValue.val, <<"/">>)
             THEN autoOpenInBrowserValue
             ELSE defaultRouteToOpen

\* The two arms of the conditional expression exchanged.
getParsedRoute_armsSwapped(currentEnv, defaultRouteToOpen) ==
    LET autoOpenInBrowserValue == Lookup(currentEnv, KEY)
    IN  IF ~ToBoolean(autoOpenInBrowserValue)
           \/ autoOpenInBrowserValue = Str(S_false) THEN JSFalse
        ELSE IF startsWith(autoOpenInBrowserValue.val, <<"/">>)
             THEN defaultRouteToOpen
             ELSE autoOpenInBrowserValue

\* Only the string 'true' opens the default route.
getParsedRoute_onlyTrue(currentEnv, defaultRouteToOpen) ==
    LET autoOpenInBrowserValue == Lookup(currentEnv, KEY)
    IN  IF ~ToBoolean(autoOpenInBrowserValue)
           \/ autoOpenInBrowserValue = Str(S_false) THEN JSFalse
        ELSE IF startsWith(autoOpenInBrowserValue.val, <<"/">>)
             THEN autoOpenInBrowserValue
             ELSE IF autoOpenInBrowserValue = Str(S_true)
                  THEN defaultRouteToOpen
                  ELSE JSFalse

\* Every truthy value other than 'false' returned as is.
getParsedRoute_asIs(currentEnv, defaultRouteToOpen) ==
    LET autoOpenInBrowserValue == Lookup(currentEnv, KEY)
    IN  IF ~ToBoolean(autoOpenInBrowserValue)
           \/ autoOpenInBrowserValue = Str(S_false) THEN JSFalse
        ELSE autoOpenInBrowserValue

\* The falsiness guard left out: startsWith is called on undefined.
getParsedRoute_noGuard(currentEnv, defaultRouteToOpen) ==
    LET autoOpenInBrowserValue == Lookup(currentEnv, KEY)
    IN  IF autoOpenInBrowserValue = Str(S_false) THEN JSFalse
        ELSE IF ~IsString(autoOpenInBrowserValue) THEN TypeError
        ELSE IF startsWith(autoOpenInBrowserValue.val, <<"/">>)
             THEN autoOpenInBrowserValue
             ELSE defaultRouteToOpen

\* A browser opened by the previous call is not opened again.
getParsedRoute_openOnce(currentEnv, defaultRouteToOpen) ==
    LET autoOpenInBrowserValue == Lookup(currentEnv, KEY)
    IN  IF /\ cur.called
           /\ "open" \in DOMAIN cur.server
           /\ cur.server["open"] # JSFalse THEN JSFalse
        ELSE IF ~ToBoolean(autoOpenInBrowserValue)
           \/ autoOpenInBrowserValue = Str(S_false) THEN JSFalse
        ELSE IF startsWith(autoOpenInBrowserValue.val, <<"/">>)
             THEN autoOpenInBrowserValue
             ELSE defaultRouteToOpen

\* The guard written as a comparison with undefined.
getParsedRoute_undefinedOnly(currentEnv, defaultRouteToOpen) ==
    LET autoOpenInBrowserValue == Lookup(currentEnv, KEY)
    IN  IF autoOpenInBrowserValue = Undefined
           \/ autoOpenInBrowserValue = Str(S_false) THEN JSFalse
        ELSE IF startsWith(autoOpenInBrowserValue.val, <<"/">>)
             THEN autoOpenInBrowserValue
             ELSE defaultRouteToOpen

\* getParsedRouteForOpenWithEnv: false, the env value or the default route.
\* A method call on a value that is no string ends in a TypeError.
getParsedRouteForOpenWithEnv(currentEnv, defaultRouteToOpen) ==
    LET autoOpenInBrowserValue == Lookup(currentEnv, KEY)
    IN  IF ~ToBoolean(autoOpenInBrowserValue)
           \/ autoOpenInBrowserValue = Str(S_false) THEN JSFalse
        ELSE IF ~IsString(autoOpenInBrowserValue) THEN TypeError
        ELSE IF startsWith(autoOpenInBrowserValue.val, <<"/">>)
             THEN autoOpenInBrowserValue
             ELSE defaultRouteToOpen

\* ------------------------------------------------- configureServerForDev

\* What one call does: whether loadEnv ran, whether it threw, what it returned.
\* `files` is what loadEnv(mode, root) reads for the mode and root of the call.
ServeOutcome(files, opts) ==
    LET open == getParsedRouteForOpenWithEnv(files, opts.defaultRouteToOpen)
    IN  IF open = TypeError
        THEN [loaded |-> TRUE, thrown |-> TRUE, result |-> EmptyObject]
        ELSE [loaded |-> TRUE, thrown |-> FALSE, result |-> OpenObject(open)]

\* The test of the command left out.
configureServerForDev_noCommandTest(command, files, opts) ==
    ServeOutcome(files, opts)

configureServerForDev(command, files, opts) ==
    IF command # "serve"
    THEN [loaded |-> FALSE, thrown |-> FALSE, result |-> EmptyObject]
    ELSE ServeOutcome(files, opts)

\* ----------------------------------------------------------------- plugin

Init ==
    /\ pc = "start"
    /\ optionsArg = Undefined
    /\ options = Undefined
    /\ cur = NoCall
    /\ prev = NoCall

\* devServerConfigPlugin(arg): the default parameter value stands in for a
\* missing argument; the returned plugin closes over `options`.
devServerConfigPlugin(arg) ==
    /\ pc = "start"
    /\ pc' = "created"
    /\ optionsArg' = arg
    /\ options' = IF arg = Undefined
                  THEN [defaultRouteToOpen |-> Str(DEFAULT_ROUTE_TO_OPEN)]
                  ELSE arg
    /\ UNCHANGED <<cur, prev>>

\* The config hook: server: { ...configureServerForDev(root, viteEnv, options) }.
\* Spreading {} gives {}, spreading { open: v } gives { open: v }.
config(command, files) ==
    /\ pc = "created"
    /\ LET r == configureServerForDev(command, files, options)
       IN  cur' = [called |-> TRUE, command |-> command, files |-> files,
                   loaded |-> r.loaded, thrown |-> r.thrown,
                   server |-> r.result]
    /\ prev' = cur
    /\ UNCHANGED <<pc, optionsArg, options>>

Next ==
    \/ \E arg \in OptionsArgs : devServerConfigPlugin(arg)
    \/ \E command \in Commands, files \in EnvRecords : config(command, files)

Spec == Init /\ [][Next]_vars


\* ----------------------------------------------------------------- claims

\* The call c ran the resolver: the hook was called with the command serve.
Served(c) == c.called /\ c.command = "serve"

HasValue(c) == KEY \in DOMAIN c.files
ValueOf(c) == c.files[KEY]

\* The call c returned normally with { open: v }.
Opens(c, v) == ~c.thrown /\ c.server = OpenObject(v)

\* C1: for every default route, the resolver returns false (NoOpen) when the
\* variable is absent from the environment or is exactly the string "false".
C1_NoOpenWhenAbsentOrFalse ==
    (Served(cur) /\ (~HasValue(cur) \/ ValueOf(cur) = S_false))
        => Opens(cur, JSFalse)

C1_Witness ==
    /\ Served(prev) /\ ~HasValue(prev) /\ Opens(prev, JSFalse)
    /\ Served(cur) /\ HasValue(cur) /\ ValueOf(cur) = S_false
    /\ Opens(cur, JSFalse)
    /\ optionsArg # Undefined

\* C2: for every env value that starts with "/" and every default route, the
\* resolver returns exactly that env value, and not the default route when
\* the two differ.
C2_SlashValueReturnedAsIs ==
    (Served(cur) /\ HasValue(cur) /\ startsWith(ValueOf(cur), <<"/">>))
        => /\ Opens(cur, Str(ValueOf(cur)))
           /\ (Str(ValueOf(cur)) # options.defaultRouteToOpen
                  => cur.server["open"] # options.defaultRouteToOpen)

C2_Witness ==
    /\ Served(prev) /\ HasValue(prev) /\ ValueOf(prev) = <<"/">>
    /\ Opens(prev, Str(<<"/">>))
    /\ Served(cur) /\ HasValue(cur) /\ ValueOf(cur) = S_slashFalse
    /\ Opens(cur, Str(S_slashFalse))
    /\ options.defaultRouteToOpen = Str(S_demo)

\* C3: for every non-empty env value that is not "false" and does not start
\* with "/", the resolver returns exactly the default route passed in.
C3_OtherValueGivesDefaultRoute ==
    (/\ Served(cur) /\ HasValue(cur)
     /\ ValueOf(cur) # <<>>
     /\ ValueOf(cur) # S_false
     /\ ~startsWith(ValueOf(cur), <<"/">>))
        => Opens(cur, options.defaultRouteToOpen)

C3_Witness ==
    /\ Served(prev) /\ HasValue(prev) /\ ValueOf(prev) = S_myRoute
    /\ Opens(prev, Str(S_slashRoute))
    /\ Served(cur) /\ HasValue(cur) /\ ValueOf(cur) = S_FALSE
    /\ Opens(cur, Str(S_slashRoute))
    /\ optionsArg = [defaultRouteToOpen |-> Str(S_slashRoute)]

\* C4: with a command other than serve the hook contributes an empty
\* configuration, whatever the env files hold, and loadEnv is not called; an
\* open directive appears only when the command is serve.
C4_OnlyServeContributes ==
    /\ (cur.called /\ cur.command # "serve")
          => (cur.server = EmptyObject /\ ~cur.loaded /\ ~cur.thrown)
    /\ (cur.called /\ "open" \in DOMAIN cur.server) => cur.command = "serve"

C4_Witness ==
    /\ Served(prev) /\ HasValue(prev) /\ ValueOf(prev) = S_true
    /\ "open" \in DOMAIN prev.server /\ prev.loaded
    /\ cur.called /\ cur.command = "build" /\ cur.files = prev.files
    /\ DOMAIN cur.server = {} /\ ~cur.loaded

C6_DirectiveIsFalseOrSlashPath ==
    (Served(cur) /\ startsWith(options.defaultRouteToOpen.val, <<"/">>))
        => /\ ~cur.thrown
           /\ DOMAIN cur.server = {"open"}
           /\ \/ cur.server["open"] = JSFalse
              \/ /\ IsString(cur.server["open"])
                 /\ startsWith(cur.server["open"].val, <<"/">>)

C6_Witness ==
    /\ Served(cur) /\ HasValue(cur) /\ ValueOf(cur) = S_myRoute
    /\ IsString(cur.server["open"])
    /\ startsWith(cur.server["open"].val, <<"/">>)
    /\ Served(prev) /\ HasValue(prev) /\ ValueOf(prev) = S_falsy

\* The three cases of the policy as the specification words them.
PolicyCase1(c) == ~HasValue(c) \/ ValueOf(c) = S_false
PolicyCase2(c) == HasValue(c) /\ startsWith(ValueOf(c), <<"/">>)
PolicyCase3(c) ==
    /\ HasValue(c) /\ ValueOf(c) # <<>>
    /\ ValueOf(c) # S_false /\ ~startsWith(ValueOf(c), <<"/">>)

\* The first case widened by the empty string.
PolicyCase1OrEmpty(c) == PolicyCase1(c) \/ (HasValue(c) /\ ValueOf(c) = <<>>)

\* The call returned the directive of the one case (of c1, c2, c3) it is in.
OneCaseDecides(c, c1, c2, c3) ==
    /\ ~c.thrown
    /\ Cardinality({i \in 1..3 : <<c1, c2, c3>>[i]}) = 1
    /\ c1 => c.server = OpenObject(JSFalse)
    /\ c2 => c.server = OpenObject(Str(ValueOf(c)))
    /\ c3 => c.server = OpenObject(options.defaultRouteToOpen)

\* C7 as stated: the resolver never throws and returns one directive, and the
\* three cases of the policy (absent or "false"; starts with "/"; any other
\* non-empty string) cover every input without overlap.
C7_AsStated ==
    Served(cur)
        => OneCaseDecides(cur, PolicyCase1(cur), PolicyCase2(cur),
                          PolicyCase3(cur))

\* C7 amended: the resolver never throws and returns one directive, and the
\* three cases cover every input without overlap once the first case takes
\* the empty string too (absent, empty or "false").
C7_TotalWithEmptyInFirstCase ==
    Served(cur)
        => OneCaseDecides(cur, PolicyCase1OrEmpty(cur), PolicyCase2(cur),
                          PolicyCase3(cur))

C7_Witness ==
    /\ Served(prev) /\ ~HasValue(prev) /\ ~prev.thrown
    /\ Served(cur) /\ HasValue(cur) /\ ValueOf(cur) = <<>>
    /\ ~cur.thrown /\ DOMAIN cur.server = {"open"}

C9_DocExamplesGiveDemo ==
    (/\ Served(cur) /\ optionsArg = Undefined
     /\ HasValue(cur) /\ ValueOf(cur) \in {S_myRoute, S_true})
        => Opens(cur, Str(S_demo))

\* C10: the empty string gives false, as an absent variable does, and not
\* the default route.
C10_EmptyStringGivesNoOpen ==
    (Served(cur) /\ HasValue(cur) /\ ValueOf(cur) = <<>>)
        => /\ Opens(cur, JSFalse)
           /\ cur.server["open"] # options.defaultRouteToOpen
           /\ (Served(prev) /\ ~HasValue(prev)) => cur.server = prev.server

C10_Witness ==
    /\ Served(prev) /\ HasValue(prev) /\ ValueOf(prev) = S_true
    /\ Opens(prev, options.defaultRouteToOpen)
    /\ Served(cur) /\ HasValue(cur) /\ ValueOf(cur) = <<>>
    /\ Opens(cur, JSFalse)

====
